---------------------------- MODULE Spec2Model ----------------------------
(***************************************************************************)
(* Model of the homectl-server device store (core/devices.rs), the message *)
(* handler (core/message.rs) and the dispatcher loop (main.rs).            *)
(*                                                                         *)
(* Conventions                                                             *)
(*   - Option<T> is a set with at most one element: None = {}, Some(x) =   *)
(*     {x}.                                                                *)
(*   - f32 values in [0,1] (brightness, saturation, xy) are integers in    *)
(*     thousandths: 1.0 = 1000, 0.01 = 10.                                 *)
(*   - A BTreeMap is a function whose DOMAIN is the set of present keys.   *)
(***************************************************************************)
EXTENDS Integers, Sequences, FiniteSets, TLC

VARIABLES
    state,          \* Devices.state : DevicesState (DeviceKey -> Device)
    keys_by_name,   \* Devices.keys_by_name : (IntegrationId, name) -> DeviceKey
    scenes,         \* AppState.scenes, as far as find_scene_device_state reads it
    queue,          \* the event channel (event_tx / event_rx), FIFO
    tasks,          \* the tasks main's loop has spawned and that have not finished
    lock,           \* holder of the RwLock write guard (set of task ids)
    waiters,        \* FIFO wait queue of the RwLock
    db,             \* persisted devices (DeviceKey -> Device)
    db_tasks,       \* spawned, not yet executed db_update_device tasks
    sent,           \* number of messages pushed into the channel so far
    produced,       \* number of external events pushed so far
    last            \* record of the most recent handle_message invocation

vars == <<state, keys_by_name, scenes, queue, tasks, lock, waiters, db,
          db_tasks, sent, produced, last>>

(***************************************************************************)
(* Bounds of the model.                                                    *)
(***************************************************************************)
MaxEvents == 2
MaxTasks == 2

(***************************************************************************)
(* Option helpers.                                                         *)
(***************************************************************************)
None == {}

Some(x) == {x}

Unwrap(o) == CHOOSE x \in o : TRUE

UnwrapOr(o, d) == IF o = {} THEN d ELSE CHOOSE x \in o : TRUE

Abs(a) == IF a < 0 THEN -a ELSE a

(***************************************************************************)
(* types::color (DeviceColor, Capabilities).                               *)
(***************************************************************************)
Xy(x, y) == [mode |-> "Xy", x |-> x, y |-> y]

Hs(h, s) == [mode |-> "Hs", h |-> h, s |-> s]

Ct(ct) == [mode |-> "Ct", ct |-> ct]

\* Capabilities: which color representations the device accepts.
Caps(xy, hs, ct) == [xy |-> xy, hs |-> hs, ct |-> ct]

IsSupported(c, capabilities) ==
    \/ c.mode = "Xy" /\ capabilities.xy
    \/ c.mode = "Hs" /\ capabilities.hs
    \/ c.mode = "Ct" /\ capabilities.ct

\* Conversions between representations: deterministic and lossy.
ToXy(c) ==
    IF c.mode = "Xy" THEN c
    ELSE IF c.mode = "Hs" THEN Xy(300 + (c.h \div 2), 300 + (c.s \div 10))
    ELSE Xy(600 - (c.ct \div 10), 400 - (c.ct \div 20))

ToHs(c) ==
    IF c.mode = "Hs" THEN c
    ELSE IF c.mode = "Xy" THEN Hs((c.x \div 3) % 360, (c.y * 2) % 1001)
    ELSE Hs((c.ct \div 10) % 360, 200)

ToCt(c) ==
    IF c.mode = "Ct" THEN c
    ELSE IF c.mode = "Xy" THEN Ct(6000 - ((c.x \div 10) * 100))
    ELSE Ct(2000 + ((c.h \div 10) * 100))

\* DeviceColor::to_device_preferred_mode
ToDevicePreferredMode(c, capabilities) ==
    IF IsSupported(c, capabilities) THEN Some(c)
    ELSE IF capabilities.xy THEN Some(ToXy(c))
    ELSE IF capabilities.hs THEN Some(ToHs(c))
    ELSE IF capabilities.ct THEN Some(ToCt(c))
    ELSE None

\* Option<DeviceColor>::and_then(|c| c.to_device_preferred_mode(capabilities))
ColorAndThenPreferred(color, capabilities) ==
    IF color = None THEN None
    ELSE ToDevicePreferredMode(Unwrap(color), capabilities)

(***************************************************************************)
(* types::device.                                                          *)
(***************************************************************************)
Unmanaged == [kind |-> "Unmanaged"]

Full == [kind |-> "Full"]

Partial(committed) == [kind |-> "Partial", prev_change_committed |-> committed]

ControllableState(power, color, brightness, transition_ms) ==
    [power |-> power, color |-> color, brightness |-> brightness,
     transition_ms |-> transition_ms]

Controllable(st, capabilities, managed) ==
    [kind |-> "Controllable", state |-> st, capabilities |-> capabilities,
     managed |-> managed]

Sensor(value) == [kind |-> "Sensor", value |-> value]

Device(integration_id, id, name, scene, data) ==
    [id |-> id, name |-> name, integration_id |-> integration_id,
     scene |-> scene, data |-> data]

DeviceKey(integration_id, id) == [integration_id |-> integration_id, id |-> id]

get_device_key(d) == DeviceKey(d.integration_id, d.id)

is_sensor(d) == d.data.kind = "Sensor"

is_managed(d) ==
    /\ d.data.kind = "Controllable"
    /\ d.data.managed.kind # "Unmanaged"

get_scene(d) == d.scene

set_scene(d, scene) == [d EXCEPT !.scene = scene]

get_controllable_state(d) ==
    IF d.data.kind = "Controllable" THEN Some(d.data.state) ELSE None

get_sensor_state(d) ==
    IF d.data.kind = "Sensor" THEN Some(d.data) ELSE None

get_supported_color_modes(d) ==
    IF d.data.kind = "Controllable" THEN Some(d.data.capabilities) ELSE None

set_controllable_state(d, st) ==
    IF d.data.kind = "Controllable" THEN [d EXCEPT !.data.state = st] ELSE d

\* Device::dim_device: the brightness of a controllable device lowered by
\* amount, not below zero; a sensor is returned as it is.
dim_device(d, amount) ==
    IF d.data.kind = "Controllable"
        THEN LET b == UnwrapOr(d.data.state.brightness, 1000) - amount
             IN  [d EXCEPT !.data.state.brightness = Some(IF b < 0 THEN 0 ELSE b)]
        ELSE d

\* The device keys of the model in the order of Ord for DeviceKey, the order
\* in which a BTreeMap is iterated.
KeyOrder == <<DeviceKey("i1", "d1"), DeviceKey("i1", "d2")>>

SortedKeys(S) == SelectSeq(KeyOrder, LAMBDA k : k \in S)

\* ControllableState::color_to_device_preferred_mode
color_to_device_preferred_mode(st, capabilities) ==
    [st EXCEPT !.color = ColorAndThenPreferred(st.color, capabilities)]

(***************************************************************************)
(* BTreeMap helpers.                                                       *)
(***************************************************************************)
EmptyMap == [k \in {} |-> {}]

MapGet(m, k) == IF k \in DOMAIN m THEN Some(m[k]) ELSE None

MapInsert(m, k, v) == [x \in DOMAIN m \cup {k} |-> IF x = k THEN v ELSE m[x]]

(***************************************************************************)
(* State comparators (core/devices.rs).                                    *)
(***************************************************************************)
FullBrightness == 1000

bri_delta == 10

hue_delta == 1

sat_delta == 10

xy_delta == 10

cct_delta == 10

CmpColorComponents(incoming, expected_converted) ==
    IF incoming = None \/ expected_converted = None THEN FALSE
    ELSE LET a == Unwrap(incoming)
             b == Unwrap(expected_converted)
         IN  IF a.mode = "Xy" /\ b.mode = "Xy"
                 THEN Abs(a.x - b.x) <= xy_delta /\ Abs(a.y - b.y) <= xy_delta
             ELSE IF a.mode = "Hs" /\ b.mode = "Hs"
                 THEN Abs(a.h - b.h) <= hue_delta /\ Abs(a.s - b.s) <= sat_delta
             ELSE IF a.mode = "Ct" /\ b.mode = "Ct"
                 THEN Abs(a.ct - b.ct) <= cct_delta
             ELSE FALSE

cmp_light_color(capabilities, incoming, incoming_bri, expected, expected_bri) ==
    IF Abs(UnwrapOr(incoming_bri, FullBrightness)
           - UnwrapOr(expected_bri, FullBrightness)) > bri_delta
        THEN FALSE
    ELSE LET expected_converted == ColorAndThenPreferred(expected, capabilities)
         IN  IF incoming = expected_converted THEN TRUE
             ELSE CmpColorComponents(incoming, expected_converted)

\* device: a ControllableDevice (the data of a controllable Device)
\* Variant: colors compared whatever the power.
cmp_device_states_powered(device, expected) ==
    IF device.state.power # expected.power THEN FALSE
    ELSE IF device.state.color # None
        THEN cmp_light_color(device.capabilities, device.state.color,
                             device.state.brightness, expected.color,
                             expected.brightness)
    ELSE TRUE

cmp_device_states(device, expected) ==
    IF device.state.power # expected.power THEN FALSE
    ELSE IF ~device.state.power /\ ~expected.power THEN TRUE
    ELSE IF device.state.color # None
        THEN cmp_light_color(device.capabilities, device.state.color,
                             device.state.brightness, expected.color,
                             expected.brightness)
    ELSE TRUE

\* Variant: every sensor payload counted as equal to the previous one.
cmp_sensor_states_any(sensor, previous) == TRUE

cmp_sensor_states(sensor, previous) == sensor = previous

(***************************************************************************)
(* Scenes::find_scene_device_state: the state the device's assigned scene  *)
(* supplies for it, if any.  scenes : SceneId -> (DeviceKey -> state).     *)
(***************************************************************************)
find_scene_device_state(sc, device) ==
    IF get_scene(device) = None THEN None
    ELSE LET scene_id == Unwrap(get_scene(device))
         IN  IF scene_id \in DOMAIN sc
                 THEN MapGet(sc[scene_id], get_device_key(device))
                 ELSE None

\* Scenes::find_scene_devices_config for a descriptor without device_keys
\* and group_keys: the device configurations of the scene, if it exists.
find_scene_devices_config(sc, scene_id) ==
    IF scene_id \in DOMAIN sc THEN Some(sc[scene_id]) ELSE None

(***************************************************************************)
(* Devices::get_expected_state                                             *)
(***************************************************************************)
\* Variant: the transition of the scene is kept.
SceneDeviceStateWithTransition(sc, device, ignore_transition) ==
    find_scene_device_state(sc, device)

SceneDeviceState(sc, device, ignore_transition) ==
    LET device_state == find_scene_device_state(sc, device)
    IN  IF device_state = None THEN None
        ELSE IF ignore_transition
            THEN Some([Unwrap(device_state) EXCEPT !.transition_ms = None])
            ELSE device_state

\* Variant: a device that is powered on is expected at full brightness.
DefaultBrightnessFull(expected_state) ==
    IF expected_state = None THEN None
    ELSE LET e == Unwrap(expected_state)
         IN  IF e.power
                 THEN Some([e EXCEPT !.brightness = Some(FullBrightness)])
                 ELSE Some(e)

DefaultBrightness(expected_state) ==
    IF expected_state = None THEN None
    ELSE LET e == Unwrap(expected_state)
         IN  IF e.power
                 THEN Some([e EXCEPT
                              !.brightness = Some(UnwrapOr(e.brightness, FullBrightness))])
                 ELSE Some(e)

\* Variant: without a scene state the stored state is not looked up.
get_expected_state_of_scene(st, device, sc, use_passed_state) ==
    IF device.data.kind = "Sensor" THEN None
    ELSE LET scene_device_state == SceneDeviceState(sc, device, use_passed_state)
             expected_state ==
                 IF scene_device_state # None THEN scene_device_state
                 ELSE IF use_passed_state THEN get_controllable_state(device)
                 ELSE None
         IN  DefaultBrightness(expected_state)

get_expected_state(st, device, sc, use_passed_state) ==
    IF device.data.kind = "Sensor" THEN None
    ELSE LET scene_device_state == SceneDeviceState(sc, device, use_passed_state)
             expected_state ==
                 IF scene_device_state # None THEN scene_device_state
                 ELSE IF use_passed_state THEN get_controllable_state(device)
                 ELSE get_controllable_state(
                          UnwrapOr(MapGet(st, get_device_key(device)), device))
         IN  DefaultBrightness(expected_state)

(***************************************************************************)
(* Messages (types::event::Message).                                       *)
(***************************************************************************)
MsgRecvDeviceState(device) == [type |-> "RecvDeviceState", device |-> device]

\* Variant: the notification carries the store before the call twice.
MsgInternalStateUpdateStale(old_state, new_state, old, new) ==
    [type |-> "InternalStateUpdate", old_state |-> old_state, new_state |-> old_state,
     old |-> old, new |-> new]

MsgInternalStateUpdate(old_state, new_state, old, new) ==
    [type |-> "InternalStateUpdate", old_state |-> old_state,
     new_state |-> new_state, old |-> old, new |-> new]

MsgSetExpectedState(device, p_set_scene, skip_send) ==
    [type |-> "SetExpectedState", device |-> device, set_scene |-> p_set_scene,
     skip_send |-> skip_send]

MsgSendDeviceState(device) == [type |-> "SendDeviceState", device |-> device]

MsgWsBroadcastState == [type |-> "WsBroadcastState"]

(***************************************************************************)
(* Devices::set_device_state.  The result record carries the new store,    *)
(* the new name index, the messages sent on event_tx (in order), the       *)
(* devices handed to spawned db_update_device tasks, the returned device   *)
(* and state_changed.                                                      *)
(***************************************************************************)
\* Variant: the name of the argument is indexed on every call.
InsertKeyByNameAlways(idx, old, device) ==
    MapInsert(idx, <<device.integration_id, device.name>>, get_device_key(device))

InsertKeyByName(idx, old, device) ==
    IF old = None
        THEN MapInsert(idx, <<device.integration_id, device.name>>,
                       get_device_key(device))
        ELSE idx

\* Variant: the scene of the argument is always kept.
RestoreSceneNever(device, old, p_set_scene) == device

RestoreScene(device, old, p_set_scene) ==
    IF ~p_set_scene /\ old # None
        THEN set_scene(device, get_scene(Unwrap(old)))
        ELSE device

ApplyExpectedState(st, device, sc, p_set_scene) ==
    IF p_set_scene \/ is_managed(device)
        THEN LET expected_state == get_expected_state(st, device, sc, TRUE)
                 capabilities == get_supported_color_modes(device)
             IN  IF expected_state # None /\ capabilities # None
                     THEN set_controllable_state(device,
                              color_to_device_preferred_mode(
                                  Unwrap(expected_state), Unwrap(capabilities)))
                     ELSE device
        ELSE device

\* Variant: the old record compared with the argument, not the committed device.
StateChangedFromArgument(old, arg, device) == old # Some(arg)

StateChanged(old, arg, device) == old # Some(device)

\* Variant: skip_send is not looked at.
ShouldSendUnlessSensor(skip_send, device) == ~is_sensor(device)

ShouldSend(skip_send, device) == ~skip_send /\ ~is_sensor(device)

\* Variant: state_changed is not looked at.
ShouldPersistUnlessSkipped(skip_db, state_changed) == ~skip_db

ShouldPersist(skip_db, state_changed) == ~skip_db /\ state_changed

set_device_state(st, idx, arg, sc, p_set_scene, skip_db, skip_send) ==
    LET old_states == st
        old == MapGet(old_states, get_device_key(arg))
        idx2 == InsertKeyByName(idx, old, arg)
        device == ApplyExpectedState(st, RestoreScene(arg, old, p_set_scene),
                                     sc, p_set_scene)
        st2 == MapInsert(st, get_device_key(device), device)
        state_changed == StateChanged(old, arg, device)
    IN  [state |-> st2,
         keys_by_name |-> idx2,
         msgs |-> (IF state_changed
                      THEN <<MsgInternalStateUpdate(old_states, st2, old, device)>>
                      ELSE <<>>)
                  \o (IF ShouldSend(skip_send, device)
                         THEN <<MsgSendDeviceState(device)>>
                         ELSE <<>>),
         db |-> IF ShouldPersist(skip_db, state_changed) THEN <<device>> ELSE <<>>,
         device |-> device,
         changed |-> state_changed]

(***************************************************************************)
(* Devices::handle_recv_device_state and handle_message                    *)
(* (core/message.rs).  Each match arm is modelled by the step it takes:    *)
(*   Commit : a call of set_device_state with the given arguments,         *)
(*   Reply  : messages sent on event_tx without touching the store,        *)
(*   Return : nothing but the Result.                                      *)
(* RunStep executes the step; its result record is the one of              *)
(* set_device_state plus the Result ("Ok" / "Err") and the arm taken.      *)
(***************************************************************************)
Commit(device, p_set_scene, skip_db, skip_send, branch) ==
    [op |-> "commit", device |-> device, set_scene |-> p_set_scene,
     skip_db |-> skip_db, skip_send |-> skip_send, branch |-> branch]

\* set_device_state called for each device of a sequence in turn.
CommitEach(devices, p_set_scene, skip_db, skip_send, branch) ==
    [op |-> "commit_each", devices |-> devices, set_scene |-> p_set_scene,
     skip_db |-> skip_db, skip_send |-> skip_send, branch |-> branch]

Reply(msgs, branch) == [op |-> "reply", msgs |-> msgs, result |-> "Ok", branch |-> branch]

Return(result, branch) == [op |-> "reply", msgs |-> <<>>, result |-> result, branch |-> branch]

\* The device sent back to the integration when drift is detected.
DriftCommand(incoming, expected_state) ==
    LET capabilities == incoming.data.capabilities
        controllable ==
            [incoming.data EXCEPT
                !.state = [color_to_device_preferred_mode(expected_state, capabilities)
                              EXCEPT !.transition_ms = None]]
    IN  [incoming EXCEPT !.data = controllable]

\* Variant: a persisted record is not looked at.
RecvUnknownAsDiscovered(incoming, db_device) ==
    Commit(incoming, TRUE, FALSE, FALSE, "discovered")

\* Variant: a key without a persisted record is refused.
RecvUnknownLookupRequired(incoming, db_device) ==
    IF db_device = None THEN Return("Err", "lookup_failed")
    ELSE Commit(set_scene(incoming, get_scene(Unwrap(db_device))), TRUE, TRUE,
                ~is_managed(incoming), "restored")

\* Variant: a discovered device committed with the flags of a restored one.
RecvUnknownAsRestored(incoming, db_device) ==
    LET device == IF db_device # None
                      THEN set_scene(incoming, get_scene(Unwrap(db_device)))
                      ELSE incoming
    IN  Commit(device, TRUE, TRUE, ~is_managed(device), "restored")

\* (_, None, _): the device was seen for the first time; db_device is the
\* outcome of db_find_device(..).await.ok().
RecvUnknown(incoming, db_device) ==
    IF db_device # None
        THEN LET device == set_scene(incoming, get_scene(Unwrap(db_device)))
             IN  Commit(device, TRUE, TRUE, ~is_managed(device), "restored")
        ELSE Commit(incoming, TRUE, FALSE, FALSE, "discovered")

\* Variant: the sensor arm without the comparison with the previous state.
RecvSensorAlwaysCommitted(incoming, current) ==
    IF get_sensor_state(current) = None THEN Return("Err", "id_collision")
    ELSE Commit(incoming, FALSE, FALSE, FALSE, "sensor_changed")

\* (DeviceData::Sensor(incoming_sensor), Some(current), _)
RecvSensor(incoming, current) ==
    LET previous == get_sensor_state(current)
    IN  IF previous = None THEN Return("Err", "id_collision")
        ELSE IF cmp_sensor_states(incoming.data, Unwrap(previous))
            THEN Return("Ok", "sensor_equal")
        ELSE Commit(incoming, FALSE, FALSE, FALSE, "sensor_changed")

\* Variant: the echo committed with skip_send = false.
RecvPartialEchoSent(incoming) ==
    Commit([incoming EXCEPT !.data.managed = Partial(TRUE)], FALSE, FALSE, FALSE,
           "partial_echo")

RecvPartialEcho(incoming) ==
    Commit([incoming EXCEPT !.data.managed = Partial(TRUE)], FALSE, FALSE, TRUE,
           "partial_echo")

\* Variant: the drifted observation committed to the store.
RecvDriftCommitted(incoming, expected_state) ==
    Commit(DriftCommand(incoming, expected_state), FALSE, FALSE, FALSE, "drift")

\* Variant: the command is sent twice.
RecvDriftTwice(incoming, expected_state) ==
    Reply(<<MsgSendDeviceState(DriftCommand(incoming, expected_state)),
            MsgSendDeviceState(DriftCommand(incoming, expected_state))>>, "drift")

RecvDrift(incoming, expected_state) ==
    Reply(<<MsgSendDeviceState(DriftCommand(incoming, expected_state))>>, "drift")

\* Variant: an observation that equals the expected state is stored.
RecvControllableEqualStored(incoming, expected_state) ==
    IF ~is_managed(incoming)
        THEN Commit(incoming, FALSE, FALSE, TRUE, "unmanaged")
    ELSE IF cmp_device_states(incoming.data, expected_state)
        THEN IF incoming.data.managed = Partial(FALSE)
                 THEN RecvPartialEcho(incoming)
                 ELSE Commit(incoming, FALSE, FALSE, TRUE, "equal")
    ELSE RecvDrift(incoming, expected_state)

\* (DeviceData::Controllable(incoming_state), _, Some(expected_state))
RecvControllable(incoming, expected_state) ==
    IF ~is_managed(incoming)
        THEN Commit(incoming, FALSE, FALSE, TRUE, "unmanaged")
    ELSE IF cmp_device_states(incoming.data, expected_state)
        THEN IF incoming.data.managed = Partial(FALSE)
                 THEN RecvPartialEcho(incoming)
                 ELSE Return("Ok", "equal")
    ELSE RecvDrift(incoming, expected_state)

handle_recv_device_state(st, incoming, sc, db_device) ==
    LET current == MapGet(st, get_device_key(incoming))
        expected_state ==
            IF current = None THEN None
            ELSE get_expected_state(st, Unwrap(current), sc, FALSE)
    IN  IF current = None
            THEN RecvUnknown(incoming, db_device)
        ELSE IF incoming.data.kind = "Sensor"
            THEN RecvSensor(incoming, Unwrap(current))
        ELSE IF expected_state # None
            THEN RecvControllable(incoming, Unwrap(expected_state))
        ELSE Commit(incoming, FALSE, FALSE, FALSE, "no_expected")

\* Variant: the devices of the scene are committed with set_scene = false.
activate_scene_unset(st, sc, scene_id) ==
    LET scene_devices_config == find_scene_devices_config(sc, scene_id)
    IN  IF scene_devices_config = None THEN Return("Ok", "no_scene")
        ELSE LET device_keys ==
                     SortedKeys(DOMAIN Unwrap(scene_devices_config) \cap DOMAIN st)
             IN  CommitEach([i \in 1..Len(device_keys) |->
                                set_scene(st[device_keys[i]], Some(scene_id))],
                            FALSE, FALSE, FALSE, "activate_scene")

\* Devices::activate_scene
activate_scene(st, sc, scene_id) ==
    LET scene_devices_config == find_scene_devices_config(sc, scene_id)
    IN  IF scene_devices_config = None THEN Return("Ok", "no_scene")
        ELSE LET device_keys ==
                     SortedKeys(DOMAIN Unwrap(scene_devices_config) \cap DOMAIN st)
             IN  CommitEach([i \in 1..Len(device_keys) |->
                                set_scene(st[device_keys[i]], Some(scene_id))],
                            TRUE, FALSE, FALSE, "activate_scene")

DefaultDimStep == 100

\* Variant: the dimmed devices are committed with set_scene = true.
dim_set_scene(st, step) ==
    LET device_keys == SortedKeys(DOMAIN st)
    IN  CommitEach([i \in 1..Len(device_keys) |->
                       set_scene(dim_device(st[device_keys[i]],
                                            UnwrapOr(step, DefaultDimStep)),
                                 Some("dimmed"))],
                   TRUE, FALSE, FALSE, "dim")

\* Devices::dim
dim(st, step) ==
    LET device_keys == SortedKeys(DOMAIN st)
    IN  CommitEach([i \in 1..Len(device_keys) |->
                       set_scene(dim_device(st[device_keys[i]],
                                            UnwrapOr(step, DefaultDimStep)),
                                 Some("dimmed"))],
                   FALSE, FALSE, FALSE, "dim")

\* DeviceRef: a key, or an integration id and a name.
IdRef(integration_id, id) ==
    [kind |-> "Id", integration_id |-> integration_id, id |-> id]

NameRef(integration_id, name) ==
    [kind |-> "Name", integration_id |-> integration_id, name |-> name]

\* Devices::get_device_by_ref
get_device_by_ref(st, idx, device_ref) ==
    LET device_key ==
            IF device_ref.kind = "Id"
                THEN Some(DeviceKey(device_ref.integration_id, device_ref.id))
                ELSE MapGet(idx, <<device_ref.integration_id, device_ref.name>>)
    IN  IF device_key = None THEN None ELSE MapGet(st, Unwrap(device_key))

\* Variant: the call is followed by a broadcast request.
ForwardedThenBroadcast(ok, branch) ==
    [op |-> "reply", msgs |-> <<MsgWsBroadcastState>>,
     result |-> IF ok THEN "Ok" ELSE "Err", branch |-> branch]

\* ok is the outcome of the external call a message is forwarded to
\* (integration, rules, expression evaluator).
Forwarded(ok, branch) == Return(IF ok THEN "Ok" ELSE "Err", branch)

handle_message(st, sc, msg, db_device, ok) ==
    IF msg.type = "RecvDeviceState"
        THEN handle_recv_device_state(st, msg.device, sc, db_device)
    ELSE IF msg.type = "InternalStateUpdate"
        THEN Reply(<<MsgWsBroadcastState>>, "invalidate")
    ELSE IF msg.type = "SetExpectedState"
        THEN Commit(msg.device, msg.set_scene, FALSE, msg.skip_send, "set_expected")
    ELSE IF msg.type = "SendDeviceState"
        THEN Forwarded(ok, "send")
    ELSE IF msg.type = "WsBroadcastState"
        THEN Return("Ok", "broadcast")
    ELSE IF msg.type \in {"DbStoreScene", "DbDeleteScene", "DbEditScene"}
        THEN Return("Ok", "scene_db")
    ELSE IF msg.type = "ActivateScene"
        THEN activate_scene(st, sc, msg.scene_id)
    ELSE IF msg.type = "Dim"
        THEN dim(st, msg.step)
    ELSE IF msg.type = "Custom"
        THEN Forwarded(ok, "custom")
    ELSE IF msg.type = "ForceTriggerRoutine"
        THEN Forwarded(ok, "force_trigger")
    ELSE IF msg.type = "SetDeviceState"
        THEN Commit(msg.device, FALSE, FALSE, FALSE, "set_device_state")
    ELSE Forwarded(ok, "eval_expr")

\* The calls of set_device_state for devices[i..], each on the store the
\* previous one left; the messages and database writes are accumulated.
RECURSIVE CommitFrom(_, _, _, _, _, _)
CommitFrom(st, idx, sc, step, devices, i) ==
    IF i > Len(devices)
        THEN [state |-> st, keys_by_name |-> idx, msgs |-> <<>>, db |-> <<>>,
              result |-> "Ok"]
        ELSE LET r == set_device_state(st, idx, devices[i], sc, step.set_scene,
                                       step.skip_db, step.skip_send)
                 rest == CommitFrom(r.state, r.keys_by_name, sc, step, devices, i + 1)
             IN  [state |-> rest.state, keys_by_name |-> rest.keys_by_name,
                  msgs |-> r.msgs \o rest.msgs, db |-> r.db \o rest.db,
                  result |-> "Ok"]

RunStep(st, idx, sc, step) ==
    IF step.op = "commit"
        THEN CommitFrom(st, idx, sc, step, <<step.device>>, 1)
    ELSE IF step.op = "commit_each"
        THEN CommitFrom(st, idx, sc, step, step.devices, 1)
    ELSE [state |-> st, keys_by_name |-> idx, msgs |-> step.msgs, db |-> <<>>,
          result |-> step.result]

(***************************************************************************)
(* Inputs of the model: the devices integrations report and the commands   *)
(* the API and the rules push into the channel.                            *)
(***************************************************************************)
K1 == DeviceKey("i1", "d1")

K2 == DeviceKey("i1", "d2")

CapsXy == Caps(TRUE, FALSE, FALSE)

StOff == ControllableState(FALSE, None, None, None)

StOn == ControllableState(TRUE, None, None, None)

StHalf == ControllableState(TRUE, None, Some(500), None)

StHalfXy == ControllableState(TRUE, Some(Xy(300, 300)), Some(500), None)

StOffXy == ControllableState(FALSE, Some(Xy(300, 300)), Some(500), None)

StNearXy == ControllableState(TRUE, Some(Xy(305, 300)), Some(505), None)

Light(scene, st, managed) ==
    Device("i1", "d1", "n1", scene, Controllable(st, CapsXy, managed))

SensorDevice(id, name, value) == Device("i1", id, name, None, Sensor(value))

ObsDevices ==
    {Light(None, st, Full) : st \in {StOff, StOn, StHalf, StHalfXy, StOffXy, StNearXy}}
    \cup {Light(None, st, m) : st \in {StOn, StHalf}, m \in {Unmanaged, Partial(FALSE)}}
    \cup {SensorDevice("d2", "n1", 0), SensorDevice("d2", "n1", 1),
          SensorDevice("d2", "n2", 0), SensorDevice("d1", "n1", 0)}

CmdDevice == Light(Some("s1"), StHalf, Full)

\* What the scene s1 supplies for device d1: a color the device does not
\* accept as is, no brightness, and a transition.
SceneState == ControllableState(TRUE, Some(Ct(3000)), None, Some(400))

SceneConfigs == {EmptyMap, "s1" :> (K1 :> SceneState)}

\* What the database holds when the process starts.
DbInits == {EmptyMap, K1 :> Light(Some("s1"), StOff, Full)}

ExternalMessages ==
    {MsgRecvDeviceState(d) : d \in ObsDevices}
    \cup {MsgSetExpectedState(CmdDevice, a, b) : a \in BOOLEAN, b \in BOOLEAN}
    \cup {MsgSetExpectedState(Light(None, StOn, Unmanaged), FALSE, FALSE)}
    \cup {[type |-> "SetDeviceState", device |-> CmdDevice]}
    \cup {[type |-> "ActivateScene", scene_id |-> "s1"],
          [type |-> "Dim", step |-> None]}
    \cup {[type |-> t] : t \in {"WsBroadcastState", "DbStoreScene", "DbDeleteScene",
                                "DbEditScene", "Custom", "ForceTriggerRoutine",
                                "EvalExpr"}}

\* The events of the dispatcher specification.
DispatchMessages ==
    {MsgRecvDeviceState(SensorDevice("d2", "n1", v)) : v \in {0, 1}}
    \cup {[type |-> "Custom"]}

\* The producer that pushes a message: the integration for observations,
\* the API for commands.
ProducerOf(msg) == IF msg.type = "RecvDeviceState" THEN "i1" ELSE "api"

IsExternal(src) == src # "core"

(***************************************************************************)
(* The state machine.                                                      *)
(***************************************************************************)
NoMsg == [type |-> "None"]

\* What is remembered of the latest handle_message call for an external event.
Summary(call) ==
    [msg |-> call.msg, scenes |-> call.scenes, db_device |-> call.db_device,
     known |-> call.msg.type \in {"RecvDeviceState", "SetExpectedState", "SetDeviceState"}
               /\ get_device_key(call.msg.device) \in DOMAIN call.pre_state]

\* The per-key count, with by more for the device of msg when cond holds.
Counted(count, msg, cond, by) ==
    IF cond THEN [count EXCEPT ![get_device_key(msg.device)] = @ + by] ELSE count

NoCall ==
    [n |-> 0, msg |-> NoMsg, src |-> "core", pre_state |-> EmptyMap,
     pre_index |-> EmptyMap, persisted |-> None, scenes |-> EmptyMap,
     db_device |-> None, result |-> "Ok", msgs |-> <<>>, db |-> <<>>, prev_result |-> "Ok",
     observed |-> [k \in {K1, K2} |-> 0], corrected |-> [k \in {K1, K2} |-> 0],
     prev |-> [msg |-> NoMsg, scenes |-> EmptyMap, db_device |-> None,
               known |-> FALSE]]

Init ==
    /\ state = EmptyMap
    /\ keys_by_name = EmptyMap
    /\ scenes \in SceneConfigs
    /\ queue = <<>>
    /\ tasks = {}
    /\ lock = {}
    /\ waiters = <<>>
    /\ db \in DbInits
    /\ db_tasks = {}
    /\ sent = 0
    /\ produced = 0
    /\ last = NoCall

\* Entries of the channel appended for msgs, numbered from sent + 1.
\* src is the producer, by the handler task that sent the message (0: none).
Enqueued(msgs, src, by) ==
    [i \in 1..Len(msgs) |->
        [msg |-> msgs[i], src |-> src, by |-> by, n |-> sent + i]]

Push(msg) ==
    /\ produced < MaxEvents
    /\ queue' = queue \o Enqueued(<<msg>>, ProducerOf(msg), 0)
    /\ sent' = sent + 1
    /\ produced' = produced + 1
    /\ UNCHANGED <<state, keys_by_name, scenes, tasks, lock, waiters, db,
                   db_tasks, last>>

\* A producer (an integration's loop, the API, a rule) pushes an event while
\* the dispatcher is idle.
Produce(msg) ==
    /\ queue = <<>>
    /\ tasks = {}
    /\ Push(msg)

\* A producer pushes an event at any time.
ProduceAnytime(msg) == Push(msg)

\* main's loop: event_rx.recv().await, then tokio::spawn of the handler task.
Recv ==
    /\ queue # <<>>
    /\ Cardinality(tasks) < MaxTasks
    /\ tasks' = tasks \cup {[id |-> Head(queue).n, msg |-> Head(queue).msg,
                             src |-> Head(queue).src, by |-> Head(queue).by,
                             pc |-> "spawned"]}
    /\ queue' = Tail(queue)
    /\ UNCHANGED <<state, keys_by_name, scenes, lock, waiters, db, db_tasks,
                   sent, produced, last>>

\* Variant: a lock that admits every writer at once.
CanAcquireShared == TRUE

\* RwLock::write: granted at once when the lock is free and nobody waits,
\* queued otherwise.
CanAcquire == lock = {} /\ waiters = <<>>

SetPc(ts, id, pc) == {IF t.id = id THEN [t EXCEPT !.pc = pc] ELSE t : t \in ts}

\* The spawned task is polled for the first time: state.write().await
TaskLock(t) ==
    /\ t \in tasks
    /\ t.pc = "spawned"
    /\ IF CanAcquire
           THEN /\ lock' = {t.id}
                /\ waiters' = waiters
                /\ tasks' = SetPc(tasks, t.id, "holding")
           ELSE /\ lock' = lock
                /\ waiters' = Append(waiters, t.id)
                /\ tasks' = SetPc(tasks, t.id, "waiting")
    /\ UNCHANGED <<state, keys_by_name, scenes, queue, db, db_tasks, sent,
                   produced, last>>

\* Variant: the write guard kept when handle_message returns an error.
GuardDroppedOnOk(result) == result = "Ok"

\* The write guard is dropped when the task's block ends, whatever the result.
GuardDropped(result) == TRUE

\* Dropping the write guard: the lock goes to the first waiter, if any.
Release(ts, result) ==
    IF GuardDropped(result)
        THEN /\ lock' = IF waiters = <<>> THEN {} ELSE {Head(waiters)}
             /\ waiters' = IF waiters = <<>> THEN <<>> ELSE Tail(waiters)
             /\ tasks' = IF waiters = <<>> THEN ts
                         ELSE SetPc(ts, Head(waiters), "holding")
        ELSE /\ tasks' = ts
             /\ UNCHANGED <<lock, waiters>>

\* db_find_device(key).await.ok(): the persisted record, or None when there
\* is none or the read fails.
DbFind(key) == {None} \cup (IF key \in DOMAIN db THEN {Some(db[key])} ELSE {})

\* Scenes::refresh_db_scenes: the scenes as reloaded from the database.
RefreshedScenes(msg) ==
    IF msg.type \in {"DbStoreScene", "DbDeleteScene", "DbEditScene"}
        THEN SceneConfigs
        ELSE {scenes}

\* The record the database holds for the device of an observation.
Persisted(msg) ==
    IF msg.type = "RecvDeviceState" THEN MapGet(db, get_device_key(msg.device))
    ELSE None

DbLookups(msg) ==
    IF msg.type = "RecvDeviceState" /\ get_device_key(msg.device) \notin DOMAIN state
        THEN DbFind(get_device_key(msg.device))
        ELSE {None}

\* Whether the external call the message is forwarded to succeeds.
Outcomes(msg) ==
    IF msg.type \in {"SendDeviceState", "Custom", "ForceTriggerRoutine", "EvalExpr"}
        THEN BOOLEAN
        ELSE {TRUE}

\* The body of the spawned task, run with the write guard held:
\* handle_message, the error log, and the drop of the guard.
TaskRun(t) ==
    /\ t \in tasks
    /\ t.pc = "holding"
    /\ \E db_device \in DbLookups(t.msg), ok \in Outcomes(t.msg),
          new_scenes \in RefreshedScenes(t.msg) :
          \E step \in {handle_message(state, scenes, t.msg, db_device, ok)} :
          \E r \in {RunStep(state, keys_by_name, scenes, step)} :
              /\ state' = r.state
              /\ keys_by_name' = r.keys_by_name
              /\ scenes' = new_scenes
              /\ queue' = queue \o Enqueued(r.msgs, "core", t.id)
              /\ sent' = sent + Len(r.msgs)
              /\ db_tasks' = db_tasks \cup
                     {[n |-> t.id, device |-> r.db[i]] : i \in 1..Len(r.db)}
              /\ last' = [n |-> t.id, msg |-> t.msg, src |-> t.src,
                          pre_state |-> state, pre_index |-> keys_by_name, persisted |-> Persisted(t.msg),
                          scenes |-> scenes, db_device |-> db_device,
                          result |-> r.result, msgs |-> r.msgs, db |-> r.db,
                          prev_result |-> last.result,
                          observed |-> Counted(last.observed, t.msg,
                                               t.msg.type = "RecvDeviceState", 1),
                          corrected |-> Counted(last.corrected, t.msg,
                                                step.branch = "drift", Len(r.msgs)),
                          prev |-> IF IsExternal(last.src) THEN Summary(last)
                                   ELSE last.prev]
              /\ Release(tasks \ {t}, r.result)
    /\ UNCHANGED <<db, produced>>

\* A spawned db_update_device task runs: the upsert succeeds or fails.
DbUpdate(u, ok) ==
    /\ u \in db_tasks
    /\ db_tasks' = db_tasks \ {u}
    /\ db' = IF ok THEN MapInsert(db, get_device_key(u.device), u.device) ELSE db
    /\ UNCHANGED <<state, keys_by_name, scenes, queue, tasks, lock, waiters,
                   sent, produced, last>>

Next ==
    \/ \E msg \in ExternalMessages : Produce(msg)
    \/ Recv
    \/ \E t \in tasks : TaskLock(t)
    \/ \E t \in tasks : TaskRun(t)
    \/ \E u \in db_tasks, ok \in BOOLEAN : DbUpdate(u, ok)

Spec == Init /\ [][Next]_vars

(***************************************************************************)
(* The dispatcher specification: producers push at any time, the runtime   *)
(* polls every spawned task, and the RwLock is fair.                       *)
(***************************************************************************)
NextDispatch ==
    \/ \E msg \in DispatchMessages : ProduceAnytime(msg)
    \/ Recv
    \/ \E t \in tasks : TaskLock(t)
    \/ \E t \in tasks : TaskRun(t)
    \/ \E u \in db_tasks, ok \in BOOLEAN : DbUpdate(u, ok)

SpecDispatch ==
    /\ Init
    /\ [][NextDispatch]_vars
    /\ WF_vars(Recv)
    /\ WF_vars(\E t \in tasks : TaskLock(t))
    /\ WF_vars(\E t \in tasks : TaskRun(t))

\* The store with the scheduling of the dispatcher, for a few events that
\* start chains of derived events: main receives what is queued, the runtime
\* polls every spawned task and the RwLock is fair.
ChainMessages ==
    {MsgRecvDeviceState(Light(None, st, Full)) : st \in {StHalfXy, StOff}}
    \cup {MsgRecvDeviceState(SensorDevice("d2", "n1", 0)),
          MsgSetExpectedState(CmdDevice, TRUE, FALSE),
          [type |-> "Dim", step |-> None]}

NextFair ==
    \/ \E msg \in ChainMessages : Produce(msg)
    \/ Recv
    \/ \E t \in tasks : TaskLock(t)
    \/ \E t \in tasks : TaskRun(t)
    \/ \E u \in db_tasks, ok \in BOOLEAN : DbUpdate(u, ok)

SpecFair ==
    /\ Init
    /\ [][NextFair]_vars
    /\ WF_vars(Recv)
    /\ WF_vars(\E t \in tasks : TaskLock(t))
    /\ WF_vars(\E t \in tasks : TaskRun(t))

(***************************************************************************)
(* Properties.  They read `last`, the record of the latest handle_message  *)
(* call: its message, the store, name index and scenes it started from,    *)
(* the messages it sent and the database writes it spawned.  The store     *)
(* after the call is the current one: no other action writes it.           *)
(***************************************************************************)
CountType(msgs, type) == Cardinality({i \in 1..Len(msgs) : msgs[i].type = type})

LastIsRecv == last.msg.type = "RecvDeviceState"

LastKey == get_device_key(last.msg.device)

LastKnown == LastKey \in DOMAIN last.pre_state

\* The expected state reconcile computes for the stored record.
LastExpected ==
    get_expected_state(last.pre_state, last.pre_state[LastKey], last.scenes, FALSE)

StoreUntouched == state = last.pre_state /\ keys_by_name = last.pre_index

\* The latest call reconciled a managed controllable observation of a known
\* key for which an expected state exists.
LastManagedObservation ==
    /\ LastIsRecv
    /\ LastKnown
    /\ is_managed(last.msg.device)
    /\ LastExpected # None

LastDrift ==
    /\ LastManagedObservation
    /\ ~cmp_device_states(last.msg.device.data, Unwrap(LastExpected))

\* The corrective command the specification describes: the incoming device's
\* identity, the expected state with its color in the device's preferred
\* representation and without a transition.
CorrectivePayload(incoming, e) ==
    [incoming EXCEPT !.data.state =
        [power |-> e.power,
         color |-> ColorAndThenPreferred(e.color, incoming.data.capabilities),
         brightness |-> e.brightness,
         transition_ms |-> None]]

\* C1: when reconcile finds a managed controllable device with a stored
\* record drifting from its expected state, it sends exactly one
\* SendDeviceState carrying the incoming identity with the expected state
\* (color converted, no transition), sends no InternalStateUpdate, spawns no
\* database write and leaves the store and the name index as they were.
C1_DriftLeavesStore ==
    LastDrift =>
        /\ last.msgs = <<MsgSendDeviceState(
                           CorrectivePayload(last.msg.device, Unwrap(LastExpected)))>>
        /\ last.db = <<>>
        /\ StoreUntouched

\* A drift was corrected whose expected state came from a scene: with a
\* transition and a color the device does not accept as is.
C1_Witness ==
    /\ LastDrift
    /\ Unwrap(LastExpected).transition_ms # None
    /\ Unwrap(LastExpected).color #
           ColorAndThenPreferred(Unwrap(LastExpected).color,
                                 last.msg.device.data.capabilities)
    /\ last.msg.device.data.state # last.pre_state[LastKey].data.state


\* The arms of handle_message and of reconcile the specification lists as not
\* calling set_device_state.
LastWithoutCommit ==
    \/ last.msg.type \in {"SendDeviceState", "InternalStateUpdate", "WsBroadcastState",
                          "Custom", "ForceTriggerRoutine", "DbStoreScene",
                          "DbDeleteScene", "DbEditScene"}
    \/ /\ LastIsRecv
       /\ LastKnown
       /\ is_sensor(last.msg.device)
       /\ \/ ~is_sensor(last.pre_state[LastKey])
          \/ last.pre_state[LastKey].data = last.msg.device.data
    \/ /\ LastManagedObservation
       /\ \/ ~cmp_device_states(last.msg.device.data, Unwrap(LastExpected))
          \/ last.msg.device.data.managed # Partial(FALSE)

\* C5: the device map and the name index are unchanged by the handling of an
\* outbound command, an internal-state-update, a broadcast request, a custom
\* action, a force-trigger-routine, a scene database event, and by the
\* branches of reconcile that do not call set_device_state (equal sensor,
\* data-integrity error, equal fully managed device, drift).
C5_SingleWritePath == LastWithoutCommit => StoreUntouched

\* An equal sensor payload reported under another name was discarded.
C5_Witness ==
    /\ LastIsRecv
    /\ LastKnown
    /\ is_sensor(last.msg.device)
    /\ is_sensor(state[LastKey])
    /\ last.msg.device.name # state[LastKey].name

\* The device arguments the idempotence of set_device_state is checked for.
ArgDevices ==
    ObsDevices \cup {CmdDevice} \cup {set_scene(d, Some("s1")) : d \in ObsDevices}

NoNotification(msgs) == CountType(msgs, "InternalStateUpdate") = 0

SecondCallIdle(d, a, b, c) ==
    \A r1 \in {set_device_state(state, keys_by_name, d, scenes, a, b, c)} :
        \A r2 \in {set_device_state(r1.state, r1.keys_by_name, d, scenes, a, b, c)} :
            /\ NoNotification(r2.msgs)
            /\ r2.db = <<>>
            /\ r2.state = r1.state
            /\ r2.device = r1.device

\* Every store the program reaches is the store of a state with no event
\* queued or in handling, where the formula is evaluated.
\* C6: from every store the program reaches, calling set_device_state twice
\* with the same device, scenes, set_scene, skip_db and skip_send makes the
\* second call send no InternalStateUpdate, spawn no database write and
\* leave the stored record as the first call stored it.
C6_Idempotent ==
    (queue = <<>> /\ tasks = {}) =>
        \A d \in ArgDevices, a \in BOOLEAN, b \in BOOLEAN, c \in BOOLEAN :
            SecondCallIdle(d, a, b, c)

\* The same SetExpectedState was handled twice; the second changed nothing
\* although its argument differs from the stored record.
C6_Witness ==
    /\ last.msg.type = "SetExpectedState"
    /\ last.prev.msg = last.msg
    /\ last.prev.scenes = last.scenes
    /\ NoNotification(last.msgs)
    /\ StoreUntouched
    /\ state[LastKey] # last.msg.device

\* The calls that reach set_device_state with set_scene = false.
LastStickyCall ==
    \/ last.msg.type \in {"RecvDeviceState", "SetDeviceState"}
    \/ last.msg.type = "SetExpectedState" /\ ~last.msg.set_scene

\* C7: a call of set_device_state with set_scene = false for a key that has
\* a stored record leaves the record's scene assignment as it was.
C7_StickyScene ==
    (LastStickyCall /\ LastKnown) =>
        get_scene(state[LastKey]) = get_scene(last.pre_state[LastKey])

\* A device carrying another scene than the stored one was committed.
C7_Witness ==
    /\ LastStickyCall
    /\ LastKnown
    /\ state # last.pre_state
    /\ get_scene(last.msg.device) # get_scene(state[LastKey])

LastPartialEcho ==
    /\ LastManagedObservation
    /\ last.msg.device.data.managed = Partial(FALSE)
    /\ cmp_device_states(last.msg.device.data, Unwrap(LastExpected))

\* C8: an observation with management mode Partial{prev_change_committed:
\* false} that equals the expected state is committed with
\* prev_change_committed = true and no SendDeviceState is sent.
C8_PartialEcho ==
    LastPartialEcho =>
        /\ state[LastKey].data.managed = Partial(TRUE)
        /\ CountType(last.msgs, "SendDeviceState") = 0

\* The stored record was Partial{false} and the echo flipped it.
C8_Witness ==
    /\ LastPartialEcho
    /\ last.pre_state[LastKey].data.managed = Partial(FALSE)
    /\ state[LastKey].data.managed = Partial(TRUE)

LastDiscovery == LastIsRecv /\ ~LastKnown /\ last.db_device = None

\* C9: the first observation of a key with no stored and no persisted
\* record creates the entry and its name-index entry, sends one
\* InternalStateUpdate whose old record is absent, spawns one upsert of the
\* committed device and, for a controllable device, sends one
\* SendDeviceState carrying the committed device.
C9_Discovery ==
    LastDiscovery =>
        /\ DOMAIN state = DOMAIN last.pre_state \cup {LastKey}
        /\ MapGet(keys_by_name,
                  <<last.msg.device.integration_id, last.msg.device.name>>)
               = Some(LastKey)
        /\ CountType(last.msgs, "InternalStateUpdate") = 1
        /\ \A i \in 1..Len(last.msgs) :
               last.msgs[i].type = "InternalStateUpdate" =>
                   last.msgs[i].old = None /\ last.msgs[i].new = state[LastKey]
        /\ last.db = <<state[LastKey]>>
        /\ CountType(last.msgs, "SendDeviceState")
               = (IF is_sensor(last.msg.device) THEN 0 ELSE 1)
        /\ \A i \in 1..Len(last.msgs) :
               last.msgs[i].type = "SendDeviceState" =>
                   last.msgs[i].device = state[LastKey]

\* A controllable device was discovered and committed with a state other
\* than the observed one.
C9_Witness ==
    /\ LastDiscovery
    /\ ~is_sensor(last.msg.device)
    /\ state[LastKey] # last.msg.device

\* The latest call reconciled the very observation that discovered the key.
LastRepeatedObservation ==
    /\ LastIsRecv
    /\ LastKnown
    /\ last.prev.msg = last.msg
    /\ ~last.prev.known
    /\ last.prev.db_device = None
    /\ last.prev.scenes = last.scenes

\* C10: a second observation identical to the one that discovered the key
\* leaves the stored record as it was and sends no InternalStateUpdate.
C10_RepeatedObservation ==
    LastRepeatedObservation =>
        /\ state[LastKey] = last.pre_state[LastKey]
        /\ NoNotification(last.msgs)

Holding == {t \in tasks : t.pc = "holding"}

\* C2: at most one handler task runs handle_message at a time, and the task
\* that runs it is the holder of the write lock.
C2_MutualExclusion ==
    /\ Cardinality(Holding) <= 1
    /\ \A t \in Holding : lock = {t.id}

\* One handler holds the lock while the handler of another event waits for it.
C2_Witness ==
    /\ Holding # {}
    /\ \E t \in tasks : t.pc = "waiting"

SameProducer(t1, t2) == t1.src = t2.src /\ t1.by = t2.by

\* C3: of two events pushed by the same producer, the handler of the later
\* one never holds the state lock while the earlier one is still to be
\* handled.
C3_PerProducerFifo ==
    \A t1 \in tasks, t2 \in tasks :
        (SameProducer(t1, t2) /\ t1.id < t2.id) => t2.pc # "holding"

\* An event leaves the queue when main spawns its task, and a task ends only
\* by running handle_message: when both are empty every event pushed so far
\* has been handled.
Drained == queue = <<>> /\ tasks = {}

\* C4: whenever events are queued or in handling, all of them are eventually
\* handled, whether or not the handling of one of them returned an error,
\* and the write lock is only ever held by a live handler task.
C4_Resilience ==
    /\ ~Drained ~> Drained
    /\ [](\A id \in lock : \E t \in tasks : t.id = id)

\* An observation was handled after the handling of another event failed.
C4_Witness ==
    /\ last.prev_result = "Err"
    /\ last.result = "Ok"
    /\ LastIsRecv
    /\ lock = {}

\* C11: no handled event changes the variant category (controllable or
\* sensor) of a stored record: every key stored before the latest call is
\* stored after it with the same category.
C11_CategoryFixed ==
    \A k \in DOMAIN last.pre_state :
        k \in DOMAIN state /\ state[k].data.kind = last.pre_state[k].data.kind

LastCategoryMismatch ==
    /\ LastIsRecv
    /\ LastKnown
    /\ last.msg.device.data.kind # last.pre_state[LastKey].data.kind

\* C12: reconciling an observation whose category differs from the one of
\* the stored record returns an error, leaves the store unchanged and sends
\* and persists nothing.
C12_MismatchIsError ==
    LastCategoryMismatch =>
        /\ last.result = "Err"
        /\ StoreUntouched
        /\ last.msgs = <<>>
        /\ last.db = <<>>

\* The latest call reconciled a managed, powered-on observation whose
\* brightness is further than the tolerance from the expected, powered-on
\* state's (an absent brightness counted as full).
LastBrightnessDrift ==
    /\ LastManagedObservation
    /\ last.msg.device.data.state.power
    /\ Unwrap(LastExpected).power
    /\ Abs(UnwrapOr(last.msg.device.data.state.brightness, FullBrightness)
           - UnwrapOr(Unwrap(LastExpected).brightness, FullBrightness)) > bri_delta

\* C13: a managed, powered-on observation whose brightness differs from the
\* expected brightness by more than the tolerance is answered with one
\* corrective SendDeviceState, whether or not the device reports a color.
C13_BrightnessDrift ==
    LastBrightnessDrift =>
        last.msgs = <<MsgSendDeviceState(
                        CorrectivePayload(last.msg.device, Unwrap(LastExpected)))>>

\* The states and capabilities the comparator is evaluated for.
CmpStates ==
    {ControllableState(p, c, b, t) :
        p \in BOOLEAN, c \in {None, Some(Xy(300, 300)), Some(Ct(3000))},
        b \in {None, Some(500), Some(1000)}, t \in {None, Some(400)}}

CmpCapabilities == {Caps(TRUE, FALSE, FALSE), Caps(FALSE, TRUE, TRUE), Caps(FALSE, FALSE, FALSE)}

\* The comparator is a function of its arguments alone: it is evaluated for
\* all of them in the initial states.
OffIsOff ==
    \A a \in CmpStates, b \in CmpStates, caps \in CmpCapabilities :
        /\ (~a.power /\ ~b.power) => cmp_device_states(Controllable(a, caps, Full), b)
        /\ a.power # b.power => ~cmp_device_states(Controllable(a, caps, Full), b)

LastOffObservation ==
    /\ LastManagedObservation
    /\ ~last.msg.device.data.state.power
    /\ ~Unwrap(LastExpected).power

\* C14: cmp_device_states is true whenever both states are off, whatever
\* their color, brightness and transition, and false whenever the power
\* values differ; a managed device observed off while its expected state is
\* off is sent no SendDeviceState.
C14_OffIsOff ==
    /\ produced = 0 => OffIsOff
    /\ LastOffObservation => CountType(last.msgs, "SendDeviceState") = 0

\* A managed device was observed off with another color and brightness
\* than its expected off state, and nothing was sent.
C14_Witness ==
    /\ LastOffObservation
    /\ last.msg.device.data.state.color # Unwrap(LastExpected).color
    /\ last.msg.device.data.state.brightness # Unwrap(LastExpected).brightness
    /\ last.msgs = <<>>

LastSensorUpdate ==
    /\ LastIsRecv
    /\ LastKnown
    /\ is_sensor(last.msg.device)
    /\ is_sensor(last.pre_state[LastKey])

\* C15: a sensor observation for a stored sensor with an equal payload
\* leaves the store alone, sends nothing and persists nothing; with another
\* payload the incoming device is stored, one InternalStateUpdate is sent
\* and no SendDeviceState.
C15_SensorUpdates ==
    LastSensorUpdate =>
        IF last.msg.device.data = last.pre_state[LastKey].data
            THEN /\ StoreUntouched
                 /\ last.msgs = <<>>
                 /\ last.db = <<>>
            ELSE /\ state[LastKey]
                        = set_scene(last.msg.device, get_scene(last.pre_state[LastKey]))
                 /\ CountType(last.msgs, "InternalStateUpdate") = 1
                 /\ CountType(last.msgs, "SendDeviceState") = 0
                 /\ last.db = <<state[LastKey]>>

\* A stored sensor reported another value, which was stored.
C15_Witness ==
    /\ LastSensorUpdate
    /\ last.msg.device.data # last.pre_state[LastKey].data
    /\ state[LastKey].data = last.msg.device.data

LastUnmanagedObservation ==
    /\ LastIsRecv
    /\ LastKnown
    /\ ~is_sensor(last.msg.device)
    /\ last.msg.device.data.managed = Unmanaged

\* C16: an observation of an unmanaged controllable device with a stored
\* record is stored with the controllable state exactly as observed, and no
\* SendDeviceState is sent.
C16_UnmanagedTracked ==
    LastUnmanagedObservation =>
        /\ state[LastKey].data = last.msg.device.data
        /\ CountType(last.msgs, "SendDeviceState") = 0

LastRestore == LastIsRecv /\ ~LastKnown /\ last.db_device # None

\* C17: the first observation of a key with a persisted record and no
\* stored record is stored with the persisted record's scene, spawns no
\* database write, and sends a SendDeviceState exactly when the device is a
\* managed controllable device.
C17_Restore ==
    LastRestore =>
        /\ LastKey \in DOMAIN state
        /\ get_scene(state[LastKey]) = get_scene(Unwrap(last.db_device))
        /\ last.db = <<>>
        /\ CountType(last.msgs, "SendDeviceState")
               = (IF ~is_sensor(last.msg.device) /\ is_managed(last.msg.device)
                      THEN 1 ELSE 0)

\* A managed device was restored with a scene its observation did not carry.
C17_Witness ==
    /\ LastRestore
    /\ get_scene(last.msg.device) # get_scene(state[LastKey])
    /\ CountType(last.msgs, "SendDeviceState") = 1

\* The read of the persisted record failed although there is one.
LastLookupFailed ==
    /\ LastIsRecv
    /\ ~LastKnown
    /\ last.persisted # None
    /\ last.db_device = None

\* C18: when the read of the persisted record fails on the first
\* observation of a key, reconcile returns Ok and does what
\* set_device_state(incoming, set_scene = true, skip_db = false,
\* skip_send = false) does.
C18_LookupFailureIsMiss ==
    LastLookupFailed =>
        \A r \in {set_device_state(last.pre_state, last.pre_index, last.msg.device,
                                   last.scenes, TRUE, FALSE, FALSE)} :
            /\ last.result = "Ok"
            /\ state = r.state
            /\ keys_by_name = r.keys_by_name
            /\ last.msgs = r.msgs
            /\ last.db = r.db

\* The read failed and the persisted scene was not restored.
C18_Witness ==
    /\ LastLookupFailed
    /\ get_scene(state[LastKey]) # get_scene(Unwrap(last.persisted))
    /\ last.db = <<state[LastKey]>>

InternalStateUpdates(msgs) ==
    {msgs[i] : i \in {j \in 1..Len(msgs) : msgs[j].type = "InternalStateUpdate"}}

\* What one call of set_device_state from the current store notifies.
NotifiesWhenChanged(d, a, b, c) ==
    \A r \in {set_device_state(state, keys_by_name, d, scenes, a, b, c)} :
        /\ CountType(r.msgs, "InternalStateUpdate")
               = (IF MapGet(state, get_device_key(d)) # Some(r.state[get_device_key(d)])
                      THEN 1 ELSE 0)
        /\ \A m \in InternalStateUpdates(r.msgs) :
               /\ m.old_state = state
               /\ m.new_state = r.state
               /\ m.old = MapGet(state, get_device_key(d))
               /\ m.new = r.state[get_device_key(d)]
               /\ \A k \in (DOMAIN m.old_state \cup DOMAIN m.new_state)
                              \ {get_device_key(d)} :
                      MapGet(m.old_state, k) = MapGet(m.new_state, k)

LastSingleCommit == last.msg.type \in {"SetExpectedState", "SetDeviceState"}

\* Every store the program reaches is the store of a state with no event
\* queued or in handling, where the calls are evaluated.
\* C19: a call of set_device_state sends exactly one InternalStateUpdate when
\* the committed record differs from the record stored before (or there was
\* none) and none otherwise; the notification carries the store before the
\* call, the store after the insert, the old and the new record of the key,
\* and the two stores agree on every other key.
C19_NotifyWhenChanged ==
    /\ (queue = <<>> /\ tasks = {}) =>
           \A d \in ArgDevices, a \in BOOLEAN, b \in BOOLEAN, c \in BOOLEAN :
               NotifiesWhenChanged(d, a, b, c)
    /\ LastSingleCommit =>
           /\ CountType(last.msgs, "InternalStateUpdate")
                  = (IF MapGet(last.pre_state, LastKey) # Some(state[LastKey])
                         THEN 1 ELSE 0)
           /\ \A m \in InternalStateUpdates(last.msgs) :
                  m.old_state = last.pre_state /\ m.new_state = state

\* A notification was sent for a change made to a store that was not empty.
C19_Witness ==
    /\ LastSingleCommit
    /\ last.pre_state # EmptyMap
    /\ \E m \in InternalStateUpdates(last.msgs) :
           m.old_state = last.pre_state /\ m.new_state = state /\ m.old # Some(m.new)

SendDeviceStates(msgs) ==
    {msgs[i] : i \in {j \in 1..Len(msgs) : msgs[j].type = "SendDeviceState"}}

\* What one call of set_device_state from the current store dispatches.
SendsCommitted(d, a, b, c) ==
    \A r \in {set_device_state(state, keys_by_name, d, scenes, a, b, c)} :
        /\ CountType(r.msgs, "SendDeviceState")
               = (IF ~c /\ ~is_sensor(r.state[get_device_key(d)]) THEN 1 ELSE 0)
        /\ \A m \in SendDeviceStates(r.msgs) : m.device = r.state[get_device_key(d)]

\* C20: a call of set_device_state sends exactly one SendDeviceState when
\* skip_send is false and the committed device is not a sensor, whether or
\* not the record changed, and none otherwise; the message carries the
\* committed device.
C20_DispatchRule ==
    /\ (queue = <<>> /\ tasks = {}) =>
           \A d \in ArgDevices, a \in BOOLEAN, b \in BOOLEAN, c \in BOOLEAN :
               SendsCommitted(d, a, b, c)
    /\ last.msg.type = "SetExpectedState" =>
           /\ CountType(last.msgs, "SendDeviceState")
                  = (IF ~last.msg.skip_send /\ ~is_sensor(state[LastKey]) THEN 1 ELSE 0)
           /\ \A m \in SendDeviceStates(last.msgs) : m.device = state[LastKey]

\* A command was sent for a call that changed nothing, carrying the stored
\* device and not the argument.
C20_Witness ==
    /\ last.msg.type = "SetExpectedState"
    /\ ~last.msg.skip_send
    /\ LastKnown
    /\ StoreUntouched
    /\ last.msgs = <<MsgSendDeviceState(state[LastKey])>>
    /\ state[LastKey] # last.msg.device

\* What one call of set_device_state from the current store persists, with
\* skip_db = false (r) and with skip_db = true (q).
PersistsWhenChanged(d, a, c) ==
    \A r \in {set_device_state(state, keys_by_name, d, scenes, a, FALSE, c)} :
        \A q \in {set_device_state(state, keys_by_name, d, scenes, a, TRUE, c)} :
            /\ r.db = (IF MapGet(state, get_device_key(d)) # Some(r.device)
                           THEN <<r.device>> ELSE <<>>)
            /\ q.db = <<>>
            /\ r.state[get_device_key(d)] = r.device
            /\ q.state = r.state
            /\ q.keys_by_name = r.keys_by_name
            /\ q.msgs = r.msgs
            /\ q.device = r.device

\* The upserts spawned by the latest call and not yet run.
LastPendingUpserts == {u \in db_tasks : u.n = last.n}

\* The run of a spawned upsert.
UpsertStep == db_tasks' # db_tasks /\ db_tasks' \subseteq db_tasks

\* Every store the program reaches is the store of a state with no event
\* queued or in handling, where the calls are evaluated.
\* C21: a call of set_device_state spawns an upsert of the committed device
\* exactly when skip_db is false and the record changed; the store, the
\* returned device and the messages sent are the same with and without the
\* upsert; while the upsert has not run the store holds the committed
\* device, and its run, successful or not, leaves store, name index, queue
\* and handler tasks as they are.
C21_PersistenceRule ==
    /\ []((queue = <<>> /\ tasks = {}) =>
            \A d \in ArgDevices, a \in BOOLEAN, c \in BOOLEAN :
                PersistsWhenChanged(d, a, c))
    /\ [](\A u \in LastPendingUpserts : state[get_device_key(u.device)] = u.device)
    /\ [][UpsertStep => UNCHANGED <<state, keys_by_name, queue, tasks, lock, sent>>]_vars

\* The upsert started by the latest call has not run, the database has no
\* record of the key, and the device is stored and was dispatched.
C21_Witness ==
    /\ last.msg.type = "SetExpectedState"
    /\ LastPendingUpserts = {[n |-> last.n, device |-> state[LastKey]]}
    /\ LastKey \notin DOMAIN db
    /\ CountType(last.msgs, "InternalStateUpdate") = 1
    /\ CountType(last.msgs, "SendDeviceState") = 1

\* The state that overrides the one of argument d: the state the scene of d
\* (the stored scene when set_scene is false) supplies for it, without its
\* transition, or else the state d carries; powered on, it has a brightness.
OverridingState(d, a) ==
    LET lookup == find_scene_device_state(
                      scenes, RestoreScene(d, MapGet(state, get_device_key(d)), a))
        base == IF lookup # None
                    THEN [Unwrap(lookup) EXCEPT !.transition_ms = None]
                    ELSE d.data.state
    IN  IF base.power
            THEN [base EXCEPT !.brightness = Some(UnwrapOr(base.brightness, FullBrightness))]
            ELSE base

CommittedState(d, a) ==
    set_device_state(state, keys_by_name, d, scenes, a, FALSE, FALSE).device.data.state

\* C22 as stated: with set_scene = true or a managed device, the committed
\* controllable state is the resolved expected state itself; otherwise it
\* is the argument's state.
C22_ExpectedOverrides ==
    (queue = <<>> /\ tasks = {}) =>
        \A d \in {x \in ArgDevices : ~is_sensor(x)}, a \in BOOLEAN :
            CommittedState(d, a)
                = (IF a \/ is_managed(d) THEN OverridingState(d, a) ELSE d.data.state)

\* C22, amended: with set_scene = true or a managed device, the committed
\* controllable state is the resolved expected state with its color
\* converted to the device's preferred mode; otherwise it is the argument's
\* state.
C22_ExpectedOverridesConverted ==
    (queue = <<>> /\ tasks = {}) =>
        \A d \in {x \in ArgDevices : ~is_sensor(x)}, a \in BOOLEAN :
            CommittedState(d, a)
                = (IF a \/ is_managed(d)
                       THEN color_to_device_preferred_mode(OverridingState(d, a),
                                                           d.data.capabilities)
                       ELSE d.data.state)

\* A device was committed with the state of its scene: without the scene's
\* transition, with full brightness and with the color converted.
C22_Witness ==
    /\ last.msg.type = "SetExpectedState"
    /\ last.msg.set_scene
    /\ find_scene_device_state(last.scenes, state[LastKey]) = Some(SceneState)
    /\ state[LastKey].data.state
           = [SceneState EXCEPT !.transition_ms = None,
                                !.brightness = Some(FullBrightness),
                                !.color = Some(ToXy(Unwrap(SceneState.color)))]
    /\ state[LastKey].data.state # last.msg.device.data.state

\* The state get_expected_state resolves for d before the brightness rule:
\* what the scene of d supplies, or else the state d carries (use_passed_state)
\* or the stored one; none when the record stored under the key is a sensor.
ResolvedState(d, u) ==
    LET lookup == find_scene_device_state(scenes, d)
        known == UnwrapOr(MapGet(state, get_device_key(d)), d)
    IN  IF lookup # None
            THEN IF u THEN Some([Unwrap(lookup) EXCEPT !.transition_ms = None])
                      ELSE lookup
            ELSE IF u THEN Some(d.data.state)
            ELSE IF is_sensor(known) THEN None
            ELSE Some(known.data.state)

OnHasBrightness(d, u) ==
    \A e \in {get_expected_state(state, d, scenes, u)} :
        IF is_sensor(d) THEN e = None
        ELSE \A r \in {ResolvedState(d, u)} :
            /\ (e = None) = (r = None)
            /\ e # None =>
                   /\ Unwrap(e).power = Unwrap(r).power
                   /\ Unwrap(e).power =>
                          /\ Unwrap(e).brightness # None
                          /\ Unwrap(e).brightness
                                 = Some(UnwrapOr(Unwrap(r).brightness, FullBrightness))
                   /\ Unwrap(e) = [Unwrap(r) EXCEPT !.brightness = Unwrap(e).brightness]
                   /\ ~Unwrap(e).power => e = r

\* C23: get_expected_state returns none for a sensor; for a controllable
\* device an expected state that is powered on has a brightness, 1.0 when the
\* resolved state had none and the resolved one otherwise, and one that is
\* powered off keeps its brightness as resolved; for every device, scene
\* lookup result and value of use_passed_state.
C23_OnHasBrightness ==
    \A d \in ArgDevices \cup {state[k] : k \in DOMAIN state}, u \in BOOLEAN :
        OnHasBrightness(d, u)

\* A drifting device was sent the state of its scene, which has no
\* brightness, at brightness 1.0.
C23_Witness ==
    /\ LastDrift
    /\ find_scene_device_state(last.scenes, last.pre_state[LastKey]) = Some(SceneState)
    /\ SceneState.brightness = None
    /\ Unwrap(LastExpected).brightness = Some(FullBrightness)
    /\ \E i \in 1..Len(last.msgs) :
           /\ last.msgs[i].type = "SendDeviceState"
           /\ last.msgs[i].device.data.state.brightness = Some(FullBrightness)

\* The latest call reconciled an observation of a fully managed (or already
\* committed partially managed) device that equals its expected state.
LastMatchingObservation ==
    /\ LastManagedObservation
    /\ last.msg.device.data.managed # Partial(FALSE)
    /\ cmp_device_states(last.msg.device.data, Unwrap(LastExpected))

\* C24: an observation of a managed controllable device with a stored record
\* and a management mode other than Partial{prev_change_committed: false},
\* equal to the expected state under the tolerances, leaves the device map
\* and the name index unchanged, also when it differs from the stored record,
\* and produces no notification, no command and no database write.
C24_MatchingObservationIdle ==
    LastMatchingObservation =>
        /\ state = last.pre_state
        /\ keys_by_name = last.pre_index
        /\ last.msgs = <<>>
        /\ last.db = <<>>
        /\ LastPendingUpserts = {}
        /\ last.result = "Ok"

\* The observation is on like the stored record, with a color and a
\* brightness that differ from the stored ones by less than the tolerances.
C24_Witness ==
    /\ LastMatchingObservation
    /\ last.msg.device.data.state.power
    /\ last.msg.device.data.state # last.pre_state[LastKey].data.state
    /\ last.msg.device.data.state.color # None
    /\ last.msg.device.data.state.color # Unwrap(LastExpected).color
    /\ last.msg.device.data.state.brightness # Unwrap(LastExpected).brightness
    /\ state[LastKey] = last.pre_state[LastKey]

\* The keys the descriptor of scene_id resolves to.
SceneKeys(sc, scene_id) ==
    IF find_scene_devices_config(sc, scene_id) = None THEN {}
    ELSE DOMAIN Unwrap(find_scene_devices_config(sc, scene_id))

\* r is what an activation of scene_id on the store st, idx left.
ActivatesScene(st, idx, sc, scene_id, r) ==
    /\ DOMAIN r.state = DOMAIN st
    /\ \A k \in SceneKeys(sc, scene_id) \cap DOMAIN st :
           /\ r.state[k] = set_device_state(st, idx, set_scene(st[k], Some(scene_id)),
                                            sc, TRUE, FALSE, FALSE).device
           /\ get_scene(r.state[k]) = Some(scene_id)
           /\ ~is_sensor(st[k]) =>
                  \E i \in 1..Len(r.msgs) : r.msgs[i] = MsgSendDeviceState(r.state[k])
    /\ \A k \in DOMAIN st \ SceneKeys(sc, scene_id) : r.state[k] = st[k]
    /\ find_scene_devices_config(sc, scene_id) = None =>
           /\ r.state = st
           /\ r.keys_by_name = idx
           /\ r.msgs = <<>>
           /\ r.db = <<>>

LastActivation == last.msg.type = "ActivateScene"

\* C25: an activation of scene S commits, with set_scene = true, the stored
\* record of every key the descriptor resolves to, with scene S: its stored
\* scene is S afterwards and a controllable device is sent its committed
\* state. Resolved keys without a record are not created, the other records
\* stay as they were, and when the resolution yields nothing the store is
\* unchanged and no event is produced.
C25_SceneActivation ==
    /\ LastActivation =>
           ActivatesScene(last.pre_state, last.pre_index, last.scenes, last.msg.scene_id,
                          [state |-> state, keys_by_name |-> keys_by_name,
                           msgs |-> last.msgs, db |-> last.db])
    /\ (queue = <<>> /\ tasks = {}) =>
           \A r \in {RunStep(state, keys_by_name, scenes,
                             activate_scene(state, scenes, "s1"))} :
               ActivatesScene(state, keys_by_name, scenes, "s1", r)

\* A controllable device stored without a scene was given scene s1 and its
\* state, and was sent it.
C25_Witness ==
    /\ LastActivation
    /\ K1 \in DOMAIN last.pre_state
    /\ ~is_sensor(last.pre_state[K1])
    /\ get_scene(last.pre_state[K1]) = None
    /\ get_scene(state[K1]) = Some("s1")
    /\ state[K1].data.state # last.pre_state[K1].data.state
    /\ CountType(last.msgs, "SendDeviceState") = 1

\* r is a store a dim event left from the store st: the same keys, every
\* device in the scene it was in, none in the scene "dimmed".
DimKeepsScenes(st, r) ==
    /\ DOMAIN r = DOMAIN st
    /\ \A k \in DOMAIN st :
           /\ get_scene(r[k]) = get_scene(st[k])
           /\ get_scene(r[k]) # Some("dimmed")

LastDim == last.msg.type = "Dim"

\* C26: after a dim event the stored scene of every device is the one it had
\* before, "dimmed" is not the stored scene of any device that had a record,
\* and the set of keys of the device map is unchanged.
C26_DimKeepsScene ==
    /\ LastDim => DimKeepsScenes(last.pre_state, state)
    /\ (queue = <<>> /\ tasks = {}) =>
           \A step \in {None, Some(500)} :
               DimKeepsScenes(state, RunStep(state, keys_by_name, scenes,
                                             dim(state, step)).state)

\* A light in scene s1 was dimmed: it was sent a command and is in s1.
C26_Witness ==
    /\ LastDim
    /\ K1 \in DOMAIN last.pre_state
    /\ get_scene(last.pre_state[K1]) = Some("s1")
    /\ get_scene(state[K1]) = Some("s1")
    /\ CountType(last.msgs, "SendDeviceState") = 1

\* r is what a dim event with the given step left from the store st: every
\* controllable device is stored, and sent, with its previous state dimmed.
DimApplied(st, step, r) ==
    \A k \in {x \in DOMAIN st : ~is_sensor(st[x])} :
        /\ r.state[k].data.state
               = dim_device(st[k], UnwrapOr(step, DefaultDimStep)).data.state
        /\ \E i \in 1..Len(r.msgs) : r.msgs[i] = MsgSendDeviceState(r.state[k])

\* C27: after a dim event with step s, for every controllable device the
\* store knew before the event, the state stored and carried by the command
\* sent for it is the previous stored state with the step applied, for
\* unmanaged devices and for managed devices whose scene supplies a state.
C27_DimTakesEffect ==
    LastDim =>
        DimApplied(last.pre_state, last.msg.step,
                   [state |-> state, msgs |-> last.msgs])

\* C28: main does not take the next event out of the channel before the
\* handling of the one it took before has completed and released the lock:
\* at most one dequeued event is waiting for the lock or holding it.
C28_OneInFlight == Cardinality(tasks) <= 1

\* The events whose handling writes the device map.
StoreEvents ==
    {"RecvDeviceState", "SetExpectedState", "SetDeviceState", "ActivateScene", "Dim"}

\* Every command the latest call sent carries the record the call stored.
SendsStored ==
    \A i \in 1..Len(last.msgs) :
        last.msgs[i].type = "SendDeviceState" =>
            /\ get_device_key(last.msgs[i].device) \in DOMAIN state
            /\ state[get_device_key(last.msgs[i].device)] = last.msgs[i].device

\* The handling of a command sends it to the integration and nothing else,
\* whether or not the integration accepts it.
LastSendIdle ==
    last.msg.type = "SendDeviceState" =>
        StoreUntouched /\ last.msgs = <<>> /\ last.db = <<>>

\* A correction of key k is sent in a step that handles an observation of k,
\* and one only.
CorrectsOnObservation ==
    \A k \in {K1, K2} :
        last'.corrected[k] # last.corrected[k] =>
            /\ last'.msg.type = "RecvDeviceState"
            /\ get_device_key(last'.msg.device) = k
            /\ last'.observed[k] = last.observed[k] + 1
            /\ last'.corrected[k] = last.corrected[k] + 1

\* C29: a corrective command is sent only while an observation of the device
\* is handled, at most one per observation: a call that is not an observation
\* sends only what it stored, the corrections sent for a key are never more
\* than the observations received for it, the handling of a command sends
\* nothing and leaves the store, and the store changes only when an
\* observation or a command for a device is handled.
C29_NoRetry ==
    /\ [](LastIsRecv => CountType(last.msgs, "SendDeviceState") <= 1)
    /\ [](~LastIsRecv => SendsStored)
    /\ [](\A k \in {K1, K2} : last.corrected[k] <= last.observed[k])
    /\ []LastSendIdle
    /\ [][CorrectsOnObservation]_vars
    /\ [][state' # state => last'.msg.type \in StoreEvents /\ last'.n # last.n]_vars

\* The integration refused the one correction sent for a device observed
\* twice: nothing is queued or running, and the store is as it was.
C29_Witness ==
    /\ last.msg.type = "SendDeviceState"
    /\ last.result = "Err"
    /\ last.corrected[K1] = 1
    /\ last.observed[K1] = 2
    /\ last.prev.msg.type = "RecvDeviceState"
    /\ StoreUntouched
    /\ queue = <<>>
    /\ tasks = {}

\* The keys a step inserts into the device map.
FirstInserted == DOMAIN state' \ DOMAIN state

\* What a step may do to the name index: no name leaves it; a key that is
\* inserted for the first time is indexed under the name of its device; the
\* index is untouched when no key is inserted for the first time, and
\* otherwise only the names of the inserted devices are written.
IndexStep ==
    /\ DOMAIN keys_by_name \subseteq DOMAIN keys_by_name'
    /\ \A k \in FirstInserted :
           /\ <<state'[k].integration_id, state'[k].name>> \in DOMAIN keys_by_name'
           /\ keys_by_name'[<<state'[k].integration_id, state'[k].name>>] = k
    /\ FirstInserted = {} => keys_by_name' = keys_by_name
    /\ \A n \in DOMAIN keys_by_name' :
           (n \notin DOMAIN keys_by_name \/ keys_by_name'[n] # keys_by_name[n]) =>
               /\ keys_by_name'[n] \in FirstInserted
               /\ n = <<state'[keys_by_name'[n]].integration_id,
                        state'[keys_by_name'[n]].name>>

\* C30: every value of the name index is a key of the device map; the entry
\* (integration id, name) -> key is added by the call of set_device_state
\* that first inserts the key; no name is ever removed from the index; a
\* call for a key that has a record leaves the index as it is.
C30_NameIndex ==
    /\ [](\A n \in DOMAIN keys_by_name : keys_by_name[n] \in DOMAIN state)
    /\ [][IndexStep]_vars
    /\ []((queue = <<>> /\ tasks = {}) =>
            \A d \in ArgDevices, a \in BOOLEAN :
                get_device_key(d) \in DOMAIN state =>
                    set_device_state(state, keys_by_name, d, scenes, a, FALSE, FALSE)
                        .keys_by_name = keys_by_name)

\* A second key was inserted into the device map and indexed under the name
\* of its device, next to the entry of the first.
C30_Witness ==
    /\ LastIsRecv
    /\ DOMAIN state = {K1, K2}
    /\ Cardinality(DOMAIN keys_by_name) = 2
    /\ get_device_key(last.msg.device) \notin DOMAIN last.pre_state
    /\ keys_by_name[<<"i1", state[LastKey].name>>] = LastKey
    /\ DOMAIN last.pre_index # DOMAIN keys_by_name

\* C31: for every stored device d the lookup by the name reference
\* (d.integration_id, d.name) returns d, and a device returned by the lookup
\* by (i, n) has integration id i and name n, also after a device was
\* observed under a new name and when two keys carry the same name.
C31_LookupByName ==
    /\ \A k \in DOMAIN state :
           get_device_by_ref(state, keys_by_name,
                             NameRef(state[k].integration_id, state[k].name))
               = Some(state[k])
    /\ \A n \in DOMAIN keys_by_name :
           \A found \in get_device_by_ref(state, keys_by_name, NameRef(n[1], n[2])) :
               found.integration_id = n[1] /\ found.name = n[2]

\* The lookup by key returns the stored record of the key.
LookupByKey ==
    \A k \in DOMAIN state :
        get_device_by_ref(state, keys_by_name, IdRef(k.integration_id, k.id))
            = Some(state[k])

\* The arm of handle_message the latest call took.
LastBranch ==
    handle_message(last.pre_state, last.scenes, last.msg, last.db_device, TRUE).branch

\* C32: for a stored controllable record the expected state reconcile
\* computes is never none, whatever the scene lookup returns; the arm that
\* commits the incoming device because no expected state was found is
\* reached only when the stored record is a sensor and the incoming device
\* is controllable.
C32_NoExpectedNeedsMismatch ==
    /\ \A k \in DOMAIN state :
           ~is_sensor(state[k]) =>
               get_expected_state(state, state[k], scenes, FALSE) # None
    /\ (LastIsRecv /\ LastBranch = "no_expected") =>
           /\ LastKnown
           /\ is_sensor(last.pre_state[LastKey])
           /\ ~is_sensor(last.msg.device)

\* A light was observed under the key of a stored sensor and committed as
\* observed; its observed state is the expected one from then on.
C32_Witness ==
    /\ LastIsRecv
    /\ LastBranch = "no_expected"
    /\ is_sensor(last.pre_state[LastKey])
    /\ state[LastKey] = last.msg.device
    /\ get_expected_state(state, state[LastKey], scenes, FALSE)
           = Some(last.msg.device.data.state)

\* The upserts a step runs.
UpsertsRun == db_tasks \ db_tasks'

\* C33: the upserts spawned by two changed commits of one key reach the
\* database in the order of the commits, so that the record written by the
\* last pending upsert of a key is the record stored for the key.
C33_UpsertsInCommitOrder ==
    [][\A u \in UpsertsRun :
           /\ \A v \in db_tasks :
                  get_device_key(v.device) = get_device_key(u.device) => u.n <= v.n
           /\ ((\A v \in db_tasks' : get_device_key(v.device) # get_device_key(u.device))
                  /\ db' # db)
                  => db'[get_device_key(u.device)] = state[get_device_key(u.device)]
      ]_vars

\* What the latest call enqueued, by the kind of event it handled.
DerivedEventsBounded ==
    /\ last.msg.type \in {"SendDeviceState", "WsBroadcastState"} => last.msgs = <<>>
    /\ last.msg.type = "InternalStateUpdate" =>
           /\ last.msgs = <<MsgWsBroadcastState>>
           /\ state = last.pre_state
           /\ keys_by_name = last.pre_index
    /\ LastIsRecv =>
           /\ CountType(last.msgs, "InternalStateUpdate") <= 1
           /\ CountType(last.msgs, "SendDeviceState") <= 1
           /\ Len(last.msgs) <= 2

\* C34: handling a command or a broadcast request enqueues nothing, handling
\* an internal-state-update enqueues one broadcast request and leaves the
\* store, handling an observation enqueues at most one internal-state-update
\* and at most one command; once the producers have stopped the queue becomes
\* empty and stays empty.
C34_DerivedEventsDieOut ==
    /\ []DerivedEventsBounded
    /\ <>[](queue = <<>> /\ tasks = {})

\* The chain an observation started has ended: its notification was handled,
\* then the broadcast request, and nothing is queued or running.
C34_Witness ==
    /\ last.msg.type = "WsBroadcastState"
    /\ last.prev.msg.type = "RecvDeviceState"
    /\ produced = MaxEvents
    /\ queue = <<>>
    /\ tasks = {}

=============================================================================
